---- MODULE Spec2Model ----
(***************************************************************************)
(* Model of the virtual file system of crates/vfs/src/lib.rs: the path     *)
(* interner, the content array `data`, the change log `changes`, and the   *)
(* public operations of `Vfs`.                                             *)
(*                                                                         *)
(* Encoding of Rust values:                                                *)
(*   Option<T>        None == << >>,  Some(x) == << x >>                    *)
(*   Vec<u8>          a sequence of bytes                                  *)
(*   FileContents(o)  the wrapped Option<Vec<u8>> itself                   *)
(*   FileId(n)        the number n; slot n of a Vec is index n + 1         *)
(*   VfsPath          << "PathBuf", n >> or << "VirtualPath", n >>         *)
(***************************************************************************)
EXTENDS Integers, Sequences, FiniteSets, TLC

\* ------------------------------------------------------------------ bounds
\* Number of distinct paths the callers use; odd ones are on disk, even ones
\* are in-memory (virtual) paths.
NumPaths == 2
\* Byte values 1..MaxByte; a Vec<u8> is empty or holds one byte.
MaxByte == 1
\* Size of one run of the store: handles allocated plus change events
\* recorded over its life.
MaxSize == 4
\* Depth of nested set_id_contents/get_or_load frames the stack can hold.
MaxStack == 2

\* ------------------------------------------------------------- Rust values
None == << >>
Some(x) == << x >>
is_none(o) == o = None
is_some(o) == o # None
unwrap(o) == o[1]

Max(a, b) == IF a >= b THEN a ELSE b

Path(n) == IF n % 2 = 1 THEN << "PathBuf", n >> ELSE << "VirtualPath", n >>

Paths == {Path(n) : n \in 1..NumPaths}

ByteVecs == {<< >>} \cup {<< b >> : b \in 1..MaxByte}

\* The values of an `Option<Vec<u8>>` argument.
OptContents == {None} \cup {Some(v) : v \in ByteVecs}

\* VfsPath::as_path: the on-disk path, None for a virtual path.
as_path(path) == IF path[1] = "PathBuf" THEN Some(path) ELSE None

\* FileContents::deleted
deleted == None

\* ChangedFile { file_id, change_kind }
ChangedFile(file_id, change_kind) ==
    [file_id |-> file_id, change_kind |-> change_kind]

\* ChangedFile::exists
exists(change) == change.change_kind # "Delete"

\* ChangedFile::is_created_or_deleted
is_created_or_deleted(change) == change.change_kind \in {"Create", "Delete"}

\* ------------------------------------------------------------ PathInterner
\* The interner is the sequence of interned paths; path k has FileId k - 1.
interner_get(interner, path) ==
    IF \E k \in 1..Len(interner) : interner[k] = path
    THEN Some((CHOOSE k \in 1..Len(interner) : interner[k] = path) - 1)
    ELSE None

intern(interner, path) ==
    IF is_some(interner_get(interner, path))
    THEN [interner |-> interner, file_id |-> unwrap(interner_get(interner, path))]
    ELSE [interner |-> Append(interner, path), file_id |-> Len(interner)]

\* Defined only for an interned id; the callers test `id < Len(interner)`.
lookup(interner, file_id) == interner[file_id + 1]

\* ------------------------------------------------------------------- state
VARIABLES
    interner,   \* Vfs.interner
    data,       \* Vfs.data: Vec<Option<FileContents>>
    changes,    \* Vfs.changes: Vec<ChangedFile>
    outcome,    \* "ok" while running, "panic" / "overflow" once a call died
    op,         \* the last call: [name, path, file_id, contents]
    ret,        \* what the last call returned (read it only under op.name)
    loads,      \* number of Loader::load_sync calls made so far
    drained,    \* history: concatenation of all take_changes results
    mutations,  \* history: one entry per set that returned true
    lastSet,    \* history: per FileId, the contents given to the last set
                \* (`last`) and to the last set of Some bytes (`some`)
    seen,       \* history: paths ever passed to set_file_contents
    scen        \* history: progress of a create/delete/recreate run

vars ==
    << interner, data, changes, outcome, op, ret, loads, drained, mutations,
       lastSet, seen, scen >>

\* The fields of `Vfs` that the methods read and write.
Self == [interner |-> interner, data |-> data, changes |-> changes, loads |-> loads]

\* ---------------------------------------------------------------- methods
\* Vfs::new
new == [interner |-> << >>, data |-> << >>, changes |-> << >>, loads |-> 0]

\* Vfs::len
len(self) == Len(self.data)

\* Vfs::file_id
file_id(self, path) == interner_get(self.interner, path)

\* Variant of resize_with: new slots take the default value of the slot type.
resize_with_default(v, n, x) ==
    IF n <= Len(v) THEN SubSeq(v, 1, n)
    ELSE v \o [k \in 1..(n - Len(v)) |-> None]

\* Vec::resize_with
resize_with(v, n, x) ==
    IF n <= Len(v) THEN SubSeq(v, 1, n)
    ELSE v \o [k \in 1..(n - Len(v)) |-> x]

\* Variant of alloc_file_id: the new slot is left not loaded.
alloc_file_id_leaves_unloaded(self, path) ==
    LET r == intern(self.interner, path)
        idx == r.file_id
        n == Max(Len(self.data), idx + 1)
    IN  [self |-> [self EXCEPT !.interner = r.interner,
                               !.data = resize_with(self.data, n, None)],
         file_id |-> idx]

\* Variant of alloc_file_id: the array is resized to one slot too many.
alloc_file_id_one_too_many(self, path) ==
    LET r == intern(self.interner, path)
        idx == r.file_id
        n == Max(Len(self.data), idx + 2)
    IN  [self |-> [self EXCEPT !.interner = r.interner,
                               !.data = resize_with(self.data, n, Some(deleted))],
         file_id |-> idx]

\* Variant of alloc_file_id: a slot is pushed on every call.
alloc_file_id_always_pushes(self, path) ==
    LET r == intern(self.interner, path)
    IN  [self |-> [self EXCEPT !.interner = r.interner,
                               !.data = Append(self.data, Some(deleted))],
         file_id |-> r.file_id]

\* Variant of alloc_file_id: the array is resized to the id, not past it.
alloc_file_id_short_by_one(self, path) ==
    LET r == intern(self.interner, path)
        idx == r.file_id
        n == Max(Len(self.data), idx)
    IN  [self |-> [self EXCEPT !.interner = r.interner,
                               !.data = resize_with(self.data, n, Some(deleted))],
         file_id |-> idx]

\* Vfs::alloc_file_id
alloc_file_id(self, path) ==
    LET r == intern(self.interner, path)
        idx == r.file_id
        n == Max(Len(self.data), idx + 1)
    IN  [self |-> [self EXCEPT !.interner = r.interner,
                               !.data = resize_with(self.data, n, Some(deleted))],
         file_id |-> idx]

\* Variant of change_kind: bytes over a deleted file are reported as Modify.
change_kind_modify_on_create(old, contents) ==
    CASE is_none(old) /\ is_none(contents) -> "Unchanged"
      [] is_some(contents) /\ is_some(old) /\ unwrap(old) = unwrap(contents) -> "Unchanged"
      [] is_some(contents) -> "Modify"
      [] OTHER -> "Delete"

\* Variant of change_kind: the (None, None) arm is missing.
change_kind_logs_repeated_delete(old, contents) ==
    CASE is_none(contents) -> "Delete"
      [] is_none(old) /\ is_some(contents) -> "Create"
      [] is_some(old) /\ is_some(contents) /\ unwrap(old) = unwrap(contents) -> "Unchanged"
      [] OTHER -> "Modify"

\* Variant of change_kind: new bytes over old bytes are reported as Create.
change_kind_create_over_present(old, contents) ==
    CASE is_none(old) /\ is_none(contents) -> "Unchanged"
      [] is_none(old) /\ is_some(contents) -> "Create"
      [] is_some(old) /\ is_none(contents) -> "Delete"
      [] is_some(old) /\ is_some(contents) /\ unwrap(old) = unwrap(contents) -> "Unchanged"
      [] OTHER -> "Create"

\* Variant of change_kind: the `old == new` guard is missing.
change_kind_no_equality_arm(old, contents) ==
    CASE is_none(old) /\ is_none(contents) -> "Unchanged"
      [] is_none(old) /\ is_some(contents) -> "Create"
      [] is_some(old) /\ is_none(contents) -> "Delete"
      [] OTHER -> "Modify"

\* The match of set_id_contents: the change kind of (old, new), or
\* "Unchanged" for the two arms that return false.
change_kind(old, contents) ==
    CASE is_none(old) /\ is_none(contents) -> "Unchanged"
      [] is_none(old) /\ is_some(contents) -> "Create"
      [] is_some(old) /\ is_none(contents) -> "Delete"
      [] is_some(old) /\ is_some(contents) /\ unwrap(old) = unwrap(contents) -> "Unchanged"
      [] OTHER -> "Modify"

\* Variant of store: the change is logged but the slot is not written.
store_log_only(self, id, contents, kind) ==
    [self EXCEPT !.changes = Append(self.changes, ChangedFile(id, kind))]

\* Variant of store: a Delete is logged but the slot keeps its bytes.
store_keeps_deleted_bytes(self, id, contents, kind) ==
    [self EXCEPT !.data[id + 1] = IF kind = "Delete" THEN @ ELSE Some(contents),
                 !.changes = Append(self.changes, ChangedFile(id, kind))]

\* Variant of store: a Delete empties the slot instead of marking it deleted.
store_delete_clears_slot(self, id, contents, kind) ==
    [self EXCEPT !.data[id + 1] = IF kind = "Delete" THEN None ELSE Some(contents),
                 !.changes = Append(self.changes, ChangedFile(id, kind))]

\* The two statements of set_id_contents after the match.
store(self, id, contents, kind) ==
    [self EXCEPT !.data[id + 1] = Some(contents),
                 !.changes = Append(self.changes, ChangedFile(id, kind))]

RECURSIVE set_id_contents(_, _, _, _, _)
RECURSIVE get_or_load(_, _, _, _)

\* Vfs::get_or_load.  `loaded` is what Loader::load_sync answers; `fuel` is
\* the number of further frames the stack holds.  Result: the store, how the
\* call ended, and (when "ok") the FileContents of the slot.
get_or_load(self, id, loaded, fuel) ==
    IF id >= Len(self.data)
    THEN [self |-> self, outcome |-> "panic", val |-> None]
    ELSE IF is_none(self.data[id + 1])
    THEN IF id >= Len(self.interner) \/ is_none(as_path(lookup(self.interner, id)))
         THEN [self |-> self, outcome |-> "panic", val |-> None]
         ELSE IF fuel = 0
         THEN [self |-> [self EXCEPT !.loads = @ + 1], outcome |-> "overflow", val |-> None]
         ELSE LET s == set_id_contents([self EXCEPT !.loads = @ + 1], id, loaded,
                                       loaded, fuel - 1)
              IN  IF s.outcome # "ok"
                  THEN [self |-> s.self, outcome |-> s.outcome, val |-> None]
                  ELSE IF is_none(s.self.data[id + 1])
                  THEN [self |-> s.self, outcome |-> "panic", val |-> None]
                  ELSE [self |-> s.self, outcome |-> "ok",
                        val |-> unwrap(s.self.data[id + 1])]
    ELSE [self |-> self, outcome |-> "ok", val |-> unwrap(self.data[id + 1])]

\* Variant of get: an id past the end of `data` reads as a deleted file.
get_past_end_is_deleted(self, id, loaded, fuel) ==
    IF id >= Len(self.data) THEN [self |-> self, outcome |-> "ok", val |-> deleted]
    ELSE get_or_load(self, id, loaded, fuel)

\* Vfs::get
get(self, id, loaded, fuel) == get_or_load(self, id, loaded, fuel)

\* Vfs::set_id_contents
set_id_contents(self, id, contents, loaded, fuel) ==
    LET g == get(self, id, loaded, fuel)
        kind == change_kind(g.val, contents)
    IN  IF g.outcome # "ok"
        THEN [self |-> g.self, outcome |-> g.outcome, ret |-> FALSE]
        ELSE IF kind = "Unchanged"
        THEN [self |-> g.self, outcome |-> "ok", ret |-> FALSE]
        ELSE [self |-> store(g.self, id, contents, kind), outcome |-> "ok", ret |-> TRUE]

\* Vfs::set_file_contents
set_file_contents(self, path, contents, loaded, fuel) ==
    LET a == alloc_file_id(self, path)
    IN  set_id_contents(a.self, a.file_id, contents, loaded, fuel)

\* Variant of file_contents: a deleted file reads as empty bytes.
file_contents_deleted_is_empty(self, id, loaded, fuel) ==
    LET g == get(self, id, loaded, fuel)
    IN  IF g.outcome # "ok" THEN [self |-> g.self, outcome |-> g.outcome, ret |-> << >>]
        ELSE IF is_none(g.val) THEN [self |-> g.self, outcome |-> "ok", ret |-> << >>]
        ELSE [self |-> g.self, outcome |-> "ok", ret |-> unwrap(g.val)]

\* Vfs::file_contents
file_contents(self, id, loaded, fuel) ==
    LET g == get(self, id, loaded, fuel)
    IN  IF g.outcome # "ok" THEN [self |-> g.self, outcome |-> g.outcome, ret |-> << >>]
        ELSE IF is_none(g.val) THEN [self |-> g.self, outcome |-> "panic", ret |-> << >>]
        ELSE [self |-> g.self, outcome |-> "ok", ret |-> unwrap(g.val)]

\* Vfs::file_path
file_path(self, id) ==
    IF id >= Len(self.interner) THEN [outcome |-> "panic", ret |-> << >>]
    ELSE [outcome |-> "ok", ret |-> lookup(self.interner, id)]

\* Variant of iter: deleted files are left out.
iter_skips_deleted(self) ==
    IF Len(self.data) > Len(self.interner) THEN [outcome |-> "panic", ret |-> << >>]
    ELSE [outcome |-> "ok",
          ret |-> SelectSeq([k \in 1..Len(self.data) |->
                                 << k - 1, lookup(self.interner, k - 1) >>],
                            LAMBDA e : self.data[e[1] + 1] # Some(deleted))]

\* Vfs::iter, consumed to its end: the pairs in the order produced; the
\* interner's lookup panics on an id it never handed out.
iter(self) ==
    IF Len(self.data) > Len(self.interner) THEN [outcome |-> "panic", ret |-> << >>]
    ELSE [outcome |-> "ok",
          ret |-> [k \in 1..Len(self.data) |-> << k - 1, lookup(self.interner, k - 1) >>]]

\* Variant of has_changes: it tests the files, not the log.
has_changes_tests_data(self) == self.data # << >>

\* Vfs::has_changes
has_changes(self) == self.changes # << >>

\* Variant of take_changes: the log is cloned, not taken.
take_changes_keeps_log(self) == [self |-> self, ret |-> self.changes]

\* Variant of take_changes: the events come back newest first.
take_changes_newest_first(self) ==
    [self |-> [self EXCEPT !.changes = << >>],
     ret |-> [k \in 1..Len(self.changes) |-> self.changes[Len(self.changes) + 1 - k]]]

\* Vfs::take_changes (mem::take): the returned Vec and the log left behind.
take_changes(self) == [self |-> [self EXCEPT !.changes = << >>], ret |-> self.changes]

\* ------------------------------------------------------ history variables
\* The content state of slot `id` in the words of the data model: a slot that
\* does not exist yet or holds None is Unknown.
ContentState(d, id) ==
    IF id >= Len(d) THEN "Unknown"
    ELSE IF is_none(d[id + 1]) THEN "Unknown"
    ELSE IF is_none(unwrap(d[id + 1])) THEN "Deleted"
    ELSE "Present"

\* The event kind the transition rule of the data model gives to a set of
\* `contents` on slot `id` of `d`; "Unchanged" for a no-op transition.
RuleKind(d, id, contents) ==
    LET st == ContentState(d, id)
    IN  IF st \in {"Unknown", "Deleted"}
        THEN (IF is_some(contents) THEN "Create" ELSE "Unchanged")
        ELSE IF is_none(contents) THEN "Delete"
        ELSE IF unwrap(unwrap(d[id + 1])) = unwrap(contents) THEN "Unchanged"
        ELSE "Modify"

Call(name, path, id, contents) ==
    [name |-> name, path |-> path, file_id |-> id, contents |-> contents]

NoPath == << >>
NoId == 0 - 1
NoScen == [stage |-> 0, path |-> NoPath, contents |-> None, file_id |-> NoId, len |-> 0]

\* The create / delete / recreate run of one path: stage 1 after the first
\* ever set_file_contents(path, Some(b)), stage 2 when the next call is
\* set_file_contents(path, None), stage 3 when the call after that is
\* set_file_contents(path, Some(b)); any other call ends the run.
NextScen(path, contents, self2) ==
    IF path \notin seen /\ is_some(contents)
    THEN [stage |-> 1, path |-> path, contents |-> contents,
          file_id |-> unwrap(file_id(self2, path)), len |-> len(self2)]
    ELSE IF scen.stage = 1 /\ path = scen.path /\ is_none(contents)
    THEN [scen EXCEPT !.stage = 2]
    ELSE IF scen.stage = 2 /\ path = scen.path /\ contents = scen.contents
    THEN [scen EXCEPT !.stage = 3]
    ELSE NoScen

\* The store's fields after a call.
Becomes(self2) ==
    /\ interner' = self2.interner
    /\ data' = self2.data
    /\ changes' = self2.changes
    /\ loads' = self2.loads

\* History of a set on handle `id` that ended as `r`.
Recorded(id, contents, r) ==
    /\ mutations' =
           IF r.outcome = "ok" /\ r.ret
           THEN Append(mutations, ChangedFile(id, RuleKind(data, id, contents)))
           ELSE mutations
    /\ lastSet' =
           IF r.outcome = "ok"
           THEN [k \in 1..Len(r.self.data) |->
                     LET was == IF k <= Len(lastSet) THEN lastSet[k]
                                ELSE [last |-> None, some |-> None]
                     IN  IF k # id + 1 THEN was
                         ELSE [last |-> contents,
                               some |-> IF is_some(contents) THEN contents ELSE was.some]]
           ELSE lastSet

\* A call is taken only while the run stays within MaxSize.
WithinBounds(self2) ==
    Len(self2.interner) + Len(drained) + Len(self2.changes) <= MaxSize

\* The answers Loader::load_sync may give for slot `id`: it is asked only
\* when the slot is None, so only then is its answer drawn.
LoaderAnswers(self, id) ==
    IF id < Len(self.data) /\ is_none(self.data[id + 1]) THEN OptContents ELSE {None}

\* ------------------------------------------------------------------ actions
Init ==
    /\ interner = new.interner
    /\ data = new.data
    /\ changes = new.changes
    /\ loads = new.loads
    /\ outcome = "ok"
    /\ op = Call("new", NoPath, NoId, None)
    /\ ret = << >>
    /\ drained = << >>
    /\ mutations = << >>
    /\ lastSet = << >>
    /\ seen = {}
    /\ scen = NoScen

SetFileContents(path, contents, loaded) ==
    LET r == set_file_contents(Self, path, contents, loaded, MaxStack)
        id == unwrap(file_id(r.self, path))
    IN  /\ outcome = "ok"
        /\ WithinBounds(r.self)
        /\ Becomes(r.self)
        /\ outcome' = r.outcome
        /\ op' = Call("set_file_contents", path, NoId, contents)
        /\ ret' = r.ret
        /\ Recorded(id, contents, r)
        /\ seen' = seen \cup {path}
        /\ scen' = IF r.outcome = "ok" THEN NextScen(path, contents, r.self) ELSE NoScen
        /\ UNCHANGED drained

SetIdContents(id, contents, loaded) ==
    LET r == set_id_contents(Self, id, contents, loaded, MaxStack)
    IN  /\ outcome = "ok"
        /\ WithinBounds(r.self)
        /\ Becomes(r.self)
        /\ outcome' = r.outcome
        /\ op' = Call("set_id_contents", NoPath, id, contents)
        /\ ret' = r.ret
        /\ Recorded(id, contents, r)
        /\ scen' = NoScen
        /\ UNCHANGED << drained, seen >>

FileContents(id, loaded) ==
    LET r == file_contents(Self, id, loaded, MaxStack)
    IN  /\ outcome = "ok"
        /\ WithinBounds(r.self)
        /\ Becomes(r.self)
        /\ outcome' = r.outcome
        /\ op' = Call("file_contents", NoPath, id, None)
        /\ ret' = r.ret
        /\ scen' = NoScen
        /\ UNCHANGED << drained, mutations, lastSet, seen >>

TakeChanges ==
    LET r == take_changes(Self)
    IN  /\ outcome = "ok"
        /\ WithinBounds(r.self)
        /\ Becomes(r.self)
        /\ op' = Call("take_changes", NoPath, NoId, None)
        /\ ret' = r.ret
        /\ drained' = drained \o r.ret
        /\ scen' = NoScen
        /\ UNCHANGED << outcome, mutations, lastSet, seen >>

\* A call of a `&self` method: the store is not written.
Reads(call, result) ==
    /\ outcome = "ok"
    /\ op' = call
    /\ ret' = result
    /\ scen' = NoScen
    /\ UNCHANGED << interner, data, changes, loads, drained, mutations, lastSet, seen >>

HasChanges ==
    /\ Reads(Call("has_changes", NoPath, NoId, None), has_changes(Self))
    /\ UNCHANGED outcome

LenCall ==
    /\ Reads(Call("len", NoPath, NoId, None), len(Self))
    /\ UNCHANGED outcome

FileIdCall(path) ==
    /\ Reads(Call("file_id", path, NoId, None), file_id(Self, path))
    /\ UNCHANGED outcome

FilePath(id) ==
    /\ Reads(Call("file_path", NoPath, id, None), file_path(Self, id).ret)
    /\ outcome' = file_path(Self, id).outcome

Iter ==
    /\ Reads(Call("iter", NoPath, NoId, None), iter(Self).ret)
    /\ outcome' = iter(Self).outcome

\* Handles a caller may pass: every allocated one and the first unallocated.
Ids == 0..Len(data)

Next ==
    \/ \E path \in Paths, contents \in OptContents :
           \E loaded \in LoaderAnswers(alloc_file_id(Self, path).self,
                                       alloc_file_id(Self, path).file_id) :
               SetFileContents(path, contents, loaded)
    \/ \E id \in Ids, contents \in OptContents :
           \E loaded \in LoaderAnswers(Self, id) : SetIdContents(id, contents, loaded)
    \/ \E id \in Ids : \E loaded \in LoaderAnswers(Self, id) : FileContents(id, loaded)
    \/ TakeChanges
    \/ HasChanges
    \/ LenCall
    \/ \E path \in Paths : FileIdCall(path)
    \/ \E id \in Ids : FilePath(id)
    \/ Iter

Spec == Init /\ [][Next]_vars

\* The stores get_or_load is written for: every path interned, each slot of
\* `data` either not loaded yet (None) or loaded as a deleted file.  The
\* claims about the lazy load are checked from these values of `Vfs`.
InitUnloaded ==
    /\ interner = [k \in 1..NumPaths |-> Path(k)]
    /\ data \in [1..NumPaths -> {None, Some(deleted)}]
    /\ changes = << >>
    /\ loads = 0
    /\ outcome = "ok"
    /\ op = Call("new", NoPath, NoId, None)
    /\ ret = << >>
    /\ drained = << >>
    /\ mutations = << >>
    /\ lastSet = [k \in 1..NumPaths |-> [last |-> None, some |-> None]]
    /\ seen = Paths
    /\ scen = NoScen

SpecUnloaded == InitUnloaded /\ [][Next]_vars

\* ------------------------------------------------------------------ claims
\* Every event recorded so far, drained or still in the log.
AllEvents == drained \o changes

IsSet(call) == call.name \in {"set_file_contents", "set_id_contents"}

\* The handle a set call acts on, read in the store `self` the call leaves.
Target(call, self) ==
    IF call.name = "set_id_contents" THEN call.file_id
    ELSE unwrap(file_id(self, call.path))

\* The bytes of a Present slot.
Bytes(d, id) == unwrap(unwrap(d[id + 1]))

\* The step appends exactly the event (h, kind), returns true and leaves
\* handle h holding `new`.
Appends(h, kind, arg) ==
    /\ outcome' = "ok"
    /\ ret' = TRUE
    /\ changes' = Append(changes, ChangedFile(h, kind))
    /\ data'[h + 1] = Some(arg)

\* C1: a set_id_contents(h, arg) on an allocated handle h records the event
\* the pair (state of h before, arg) determines: Deleted or Unknown and
\* Some(bytes) gives exactly one Create; Present(b1) and Some(b2), b1 # b2,
\* gives exactly one Modify; Present and None gives exactly one Delete; each
\* time the call returns true and h then holds the new value.
C1_EventKind ==
    [][(op'.name = "set_id_contents" /\ op'.file_id < Len(data)) =>
          LET h == op'.file_id
              arg == op'.contents
              st == ContentState(data, h)
          IN  /\ (st \in {"Deleted", "Unknown"} /\ is_some(arg))
                     => Appends(h, "Create", arg)
              /\ (st = "Present" /\ is_some(arg) /\ Bytes(data, h) # unwrap(arg))
                     => Appends(h, "Modify", arg)
              /\ (st = "Present" /\ is_none(arg))
                     => Appends(h, "Delete", arg)]_vars

\* A set_id_contents has just replaced the bytes of a Present handle and the
\* log ends with its Modify.
C1_Witness ==
    /\ op.name = "set_id_contents"
    /\ outcome = "ok"
    /\ ret = TRUE
    /\ changes # << >>
    /\ changes[Len(changes)] = ChangedFile(op.file_id, "Modify")
    /\ \E k \in 1..Len(AllEvents) : AllEvents[k] = ChangedFile(op.file_id, "Create")

\* C2: a set (by path or by handle) of the bytes the handle already holds, or
\* of None on a handle that is Deleted, Unknown or not allocated yet, returns
\* false and leaves the change log and every handle's contents as they were.
C2_NoOp ==
    [][(IsSet(op') /\ (op'.name = "set_id_contents" => op'.file_id < Len(data))) =>
          LET arg == op'.contents
              fresh == op'.name = "set_file_contents" /\ is_none(file_id(Self, op'.path))
              h == IF fresh THEN Len(data) ELSE Target(op', Self)
              st == ContentState(data, h)
              noop ==
                  \/ st = "Present" /\ is_some(arg) /\ Bytes(data, h) = unwrap(arg)
                  \/ st \in {"Deleted", "Unknown"} /\ is_none(arg)
          IN  noop =>
                  /\ outcome' = "ok"
                  /\ ret' = FALSE
                  /\ changes' = changes
                  /\ \A k \in 1..Len(data) : data'[k] = data[k]
                  /\ ~fresh => data' = data]_vars

\* The last call set the bytes a Present handle already held and was refused.
C2_Witness ==
    /\ IsSet(op)
    /\ outcome = "ok"
    /\ ret = FALSE
    /\ is_some(op.contents)
    /\ ContentState(data, Target(op, Self)) = "Present"
    /\ Bytes(data, Target(op, Self)) = unwrap(op.contents)
    /\ changes # << >>

\* C3: the results of all take_changes calls so far, concatenated, followed
\* by the events still in the log, are in order the sets that returned true:
\* no event is lost, duplicated or reordered by a drain.
C3_ExactlyOnce == AllEvents = mutations

\* Some events have been drained and others recorded since.
C3_Witness ==
    /\ drained # << >>
    /\ changes # << >>
    /\ Len(mutations) >= 3

\* C4: take_changes returns the events appended since the previous drain in
\* the order they were appended and leaves the log empty; a drain right after
\* a drain returns the empty sequence; a drain changes neither the contents
\* of any handle nor len().
C4_Drain ==
    [][op'.name = "take_changes" =>
          /\ ret' = changes
          /\ ret' = SubSeq(mutations, Len(drained) + 1, Len(mutations))
          /\ changes' = << >>
          /\ (op.name = "take_changes" => ret' = << >>)
          /\ data' = data
          /\ len(Self') = len(Self)
          /\ interner' = interner]_vars

\* A drain has just returned two or more events and emptied the log.
C4_Witness ==
    /\ op.name = "take_changes"
    /\ Len(ret) >= 2
    /\ changes = << >>
    /\ ret[1] # ret[2]

\* C5 as stated: after any sequence of sets, file_contents(h) returns the
\* last non-deleting value set for h, whatever was set after it.
C5_LastNonDeleting ==
    (op.name = "file_contents" /\ op.file_id < Len(lastSet)
        /\ is_some(lastSet[op.file_id + 1].some))
    => (outcome = "ok" /\ ret = unwrap(lastSet[op.file_id + 1].some))

\* C5, amended: file_contents(h) returns exactly the bytes given to the most
\* recent set for h when that set gave Some(bytes), and ends in the fatal
\* error when the most recent set gave None.
C5_RoundTrip ==
    (op.name = "file_contents" /\ op.file_id < Len(lastSet)) =>
        LET last == lastSet[op.file_id + 1].last
        IN  /\ is_some(last) => (outcome = "ok" /\ ret = unwrap(last))
            /\ is_none(last) => outcome = "panic"

\* file_contents has just returned the bytes of a handle that was created and
\* then modified.
C5_Witness ==
    /\ op.name = "file_contents"
    /\ outcome = "ok"
    /\ op.file_id < Len(lastSet)
    /\ ret = unwrap(lastSet[op.file_id + 1].last)
    /\ \E k \in 1..Len(AllEvents) : AllEvents[k] = ChangedFile(op.file_id, "Modify")

\* C6: the first set_file_contents(path, Some(b)) of a path never seen before
\* gives the path the handle len() had before the call, makes len() grow by
\* exactly one, returns true and appends exactly one event, a Create for it.
C6_FirstSet ==
    [][(op'.name = "set_file_contents" /\ op'.path \notin seen /\ is_some(op'.contents)) =>
          /\ outcome' = "ok"
          /\ file_id(Self', op'.path) = Some(len(Self))
          /\ len(Self') = len(Self) + 1
          /\ ret' = TRUE
          /\ changes' = Append(changes, ChangedFile(len(Self), "Create"))]_vars

\* A second path has just been set for the first time and got handle 1.
C6_Witness ==
    /\ op.name = "set_file_contents"
    /\ ret = TRUE
    /\ Cardinality(seen) = 2
    /\ file_id(Self, op.path) = Some(1)
    /\ changes # << >>
    /\ changes[Len(changes)] = ChangedFile(1, "Create")
    /\ Len(AllEvents) = 1

\* The last n events of the log.
LastEvents(n) == SubSeq(changes, Len(changes) - n + 1, Len(changes))

\* C7: for a new path, set_file_contents(path, Some(b)) then
\* set_file_contents(path, None) appends Create then Delete for the same
\* handle h; set_file_contents(path, Some(b)) after that appends a second
\* Create for h; the second and third call allocate nothing (len() as after
\* the first call, the path still has handle h).
C7_CreateDeleteCreate ==
    LET h == scen.file_id
        kept == len(Self) = scen.len /\ file_id(Self, scen.path) = Some(h)
    IN  /\ scen.stage = 1 =>
              /\ Len(changes) >= 1
              /\ LastEvents(1) = << ChangedFile(h, "Create") >>
        /\ scen.stage = 2 =>
              /\ Len(changes) >= 2
              /\ LastEvents(2) = << ChangedFile(h, "Create"), ChangedFile(h, "Delete") >>
              /\ kept
        /\ scen.stage = 3 =>
              /\ Len(changes) >= 3
              /\ LastEvents(3) = << ChangedFile(h, "Create"), ChangedFile(h, "Delete"),
                              ChangedFile(h, "Create") >>
              /\ kept

\* The three calls have been made, on a path that is not the first one.
C7_Witness ==
    /\ scen.stage = 3
    /\ op.name = "set_file_contents"
    /\ ret = TRUE
    /\ ContentState(data, scen.file_id) = "Present"

Kinds == {"Create", "Modify", "Delete"}

\* C8: a path keeps the handle it was given: no call changes the handle of a
\* path that has one, and a set_file_contents of a path seen before allocates
\* nothing (len() as before) and acts on that path's handle only.
C8_InternStable ==
    [][/\ \A p \in Paths :
              is_some(file_id(Self, p)) => file_id(Self', p) = file_id(Self, p)
       /\ (op'.name = "set_file_contents" /\ op'.path \in seen) =>
              LET h == unwrap(file_id(Self, op'.path))
              IN  /\ is_some(file_id(Self, op'.path))
                  /\ len(Self') = len(Self)
                  /\ \A k \in 1..Len(data) : k # h + 1 => data'[k] = data[k]
                  /\ \/ changes' = changes
                     \/ \E kind \in Kinds : changes' = Append(changes, ChangedFile(h, kind))
       /\ (op'.name = "file_id" /\ op'.path \in seen) =>
              (is_some(ret') /\ ret' = file_id(Self, op'.path))]_vars

\* The first of two interned paths has just been set again, with new bytes.
C8_Witness ==
    /\ op.name = "set_file_contents"
    /\ ret = TRUE
    /\ Len(interner) = 2
    /\ op.path = interner[1]
    /\ len(Self) = 2
    /\ changes # << >>
    /\ changes[Len(changes)] = ChangedFile(0, "Modify")

\* The handles of the paths passed to set_file_contents so far.
Handles == {unwrap(file_id(Self, p)) : p \in {q \in seen : is_some(file_id(Self, q))}}

\* The allocated handles are 0 .. len() - 1, one for each path ever passed to
\* set_file_contents and for no other path.
Contiguous ==
    /\ len(Self) = Cardinality(seen)
    /\ \A p \in Paths : is_some(file_id(Self, p)) <=> p \in seen
    /\ Handles = 0..(len(Self) - 1)
    /\ \A p, q \in seen : file_id(Self, p) = file_id(Self, q) => p = q
    /\ \A h \in 0..(len(Self) - 1) :
           /\ file_path(Self, h).outcome = "ok"
           /\ file_id(Self, file_path(Self, h).ret) = Some(h)

\* C9: in every state the allocated handles are exactly 0 .. N - 1 with
\* N = len() the number of distinct paths ever passed to set_file_contents;
\* a new path gets the handle len() had, a handle keeps its path, and len()
\* never decreases (a delete keeps the handle).
C9_Handles ==
    /\ Contiguous
    /\ [][/\ Contiguous'
          /\ len(Self') >= len(Self)
          /\ \A h \in 0..(len(Self) - 1) : file_path(Self', h) = file_path(Self, h)
          /\ \A p \in seen' \ seen : file_id(Self', p) = Some(len(Self))]_vars

\* Two paths have handles 0 and 1, and handle 0 has been deleted.
C9_Witness ==
    /\ len(Self) = 2
    /\ Cardinality(seen) = 2
    /\ ContentState(data, 0) = "Deleted"
    /\ \E k \in 1..Len(AllEvents) : AllEvents[k] = ChangedFile(0, "Delete")

\* C10: a slot that is Deleted or Present stays Deleted or Present through
\* every call; it never becomes Unknown again.
C10_NeverUnknownAgain ==
    [][\A h \in 0..(Len(data) - 1) :
           ContentState(data, h) \in {"Deleted", "Present"}
               => ContentState(data', h) \in {"Deleted", "Present"}]_vars

\* A handle has been deleted and is Present again.
C10_Witness ==
    /\ \E h \in 0..(Len(data) - 1) :
           /\ ContentState(data, h) = "Present"
           /\ \E k \in 1..Len(AllEvents) : AllEvents[k] = ChangedFile(h, "Delete")
    /\ IsSet(op)

\* Slot `id` of the store is not loaded yet and its path is on disk.
UnloadedOnDisk(id) ==
    /\ id < Len(data)
    /\ is_none(data[id + 1])
    /\ id < Len(interner)
    /\ is_some(as_path(lookup(interner, id)))

StoreUnchanged ==
    /\ interner' = interner
    /\ data' = data
    /\ changes' = changes
    /\ loads' = loads

\* C12: file_contents(h) on an allocated handle that is Deleted ends in the
\* fatal error, returns no bytes, and leaves every handle's state, len() and
\* the change log as they were.
C12_ReadDeleted ==
    [][(op'.name = "file_contents" /\ op'.file_id < Len(data)
            /\ ContentState(data, op'.file_id) = "Deleted") =>
          /\ outcome' = "panic"
          /\ ret' = << >>
          /\ StoreUnchanged]_vars

\* file_contents has just died on a handle that held bytes before its delete.
C12_Witness ==
    /\ op.name = "file_contents"
    /\ outcome = "panic"
    /\ op.file_id < Len(data)
    /\ ContentState(data, op.file_id) = "Deleted"
    /\ is_some(lastSet[op.file_id + 1].some)

\* C13: file_contents(h), file_path(h) and set_id_contents(h, _) on a handle
\* never allocated (h >= len()) end in the fatal error, allocate nothing,
\* append no event and change no contents.
C13_UnknownHandle ==
    [][(op'.name \in {"file_contents", "file_path", "set_id_contents"}
            /\ op'.file_id >= len(Self)) =>
          /\ outcome' = "panic"
          /\ StoreUnchanged]_vars

\* A set by a handle one past the last allocated one has just died, in a
\* store that holds a file and a pending event.
C13_Witness ==
    /\ op.name = "set_id_contents"
    /\ op.file_id = len(Self)
    /\ is_some(op.contents)
    /\ outcome = "panic"
    /\ len(Self) >= 1
    /\ changes # << >>

\* C14: iter yields exactly len() pairs, the k-th being handle k - 1 with the
\* path that has that handle, Deleted handles included; it loads nothing,
\* appends no event and changes no contents, and a second iter right after
\* it yields the same sequence.
C14_Iter ==
    [][op'.name = "iter" =>
          /\ outcome' = "ok"
          /\ Len(ret') = len(Self)
          /\ \A k \in 1..Len(ret') :
                 /\ ret'[k][1] = k - 1
                 /\ file_id(Self, ret'[k][2]) = Some(k - 1)
                 /\ ret'[k][2] = file_path(Self, k - 1).ret
          /\ StoreUnchanged
          /\ (op.name = "iter" => ret' = ret)]_vars

\* iter has just listed two handles, one of them Deleted.
C14_Witness ==
    /\ op.name = "iter"
    /\ Len(ret) = 2
    /\ \E h \in 0..1 : ContentState(data, h) = "Deleted"
    /\ \E h \in 0..1 : ContentState(data, h) = "Present"

FirstUse == op'.name = "set_file_contents" /\ op'.path \notin seen

\* C16 as stated: right after alloc_file_id has allocated the handle of a
\* never-seen path, before any contents are set or read for it, the slot of
\* the handle is Unknown.
C16_BeginsUnknown ==
    [][FirstUse =>
          LET a == alloc_file_id(Self, op'.path)
          IN  ContentState(a.self.data, a.file_id) = "Unknown"]_vars

\* C16, amended: right after alloc_file_id has allocated the handle of a
\* never-seen path, before any contents are set or read for it, the slot of
\* the handle is Deleted (Some(FileContents::deleted())), not Unknown; so a
\* first set of None finds nothing to load and leaves it Deleted.
C16_BeginsDeleted ==
    [][FirstUse =>
          LET a == alloc_file_id(Self, op'.path)
          IN  /\ a.file_id = len(Self)
              /\ ContentState(a.self.data, a.file_id) = "Deleted"
              /\ loads' = loads
              /\ outcome' = "ok"
              /\ is_none(op'.contents) =>
                     (ret' = FALSE /\ ContentState(data', a.file_id) = "Deleted")]_vars

\* A first path has just been allocated by a set of None: its slot is Deleted
\* and nothing was loaded or logged.
C16_Witness ==
    /\ op.name = "set_file_contents"
    /\ is_none(op.contents)
    /\ ret = FALSE
    /\ len(Self) = 1
    /\ ContentState(data, 0) = "Deleted"
    /\ AllEvents = << >>
    /\ loads = 0

\* C17: has_changes returns true exactly when the log is not empty, that is
\* when some set has returned true since the last take_changes (or since
\* new); it is false on a new store and right after every take_changes, and
\* the call changes no state.
C17_HasChanges ==
    /\ ~has_changes(Self)
    /\ [][/\ has_changes(Self') <=> changes' # << >>
          /\ has_changes(Self') <=> Len(mutations') > Len(drained')
          /\ op'.name = "take_changes" => ~has_changes(Self')
          /\ op'.name = "has_changes" =>
                 /\ ret' = has_changes(Self)
                 /\ ret' = (Len(mutations) > Len(drained))
                 /\ StoreUnchanged
                 /\ UNCHANGED << outcome, drained, mutations >>]_vars

\* has_changes has just returned true for events recorded after a drain.
C17_Witness ==
    /\ op.name = "has_changes"
    /\ ret = TRUE
    /\ drained # << >>
    /\ changes # << >>

\* The kinds of the events of handle h, drained or not, oldest first.
KindsOf(h) ==
    LET es == SelectSeq(AllEvents, LAMBDA e : e.file_id = h)
    IN  [k \in 1..Len(es) |-> es[k].change_kind]

\* C18: for every handle the events recorded over all drains begin with a
\* Create, a Create or Modify is followed only by a Modify or a Delete, a
\* Delete only by a Create; the handle is Present exactly when its last
\* event is a Create or a Modify and Deleted exactly when it has no event or
\* its last event is a Delete.
C18_History ==
    /\ \A k \in 1..Len(AllEvents) : AllEvents[k].file_id \in 0..(len(Self) - 1)
    /\ \A h \in 0..(len(Self) - 1) :
           LET ks == KindsOf(h)
               n == Len(ks)
           IN  /\ n > 0 => ks[1] = "Create"
               /\ \A k \in 1..(n - 1) :
                      /\ ks[k] \in {"Create", "Modify"} => ks[k + 1] \in {"Modify", "Delete"}
                      /\ ks[k] = "Delete" => ks[k + 1] = "Create"
               /\ ContentState(data, h) = "Present"
                      <=> (n > 0 /\ ks[n] \in {"Create", "Modify"})
               /\ ContentState(data, h) = "Deleted"
                      <=> (n = 0 \/ ks[n] = "Delete")

\* A handle has been created, modified and deleted, part of it drained.
C18_Witness ==
    /\ \E h \in 0..(len(Self) - 1) : KindsOf(h) = << "Create", "Modify", "Delete" >>
    /\ drained # << >>

\* C19: from Vfs::new, through the public methods, every slot of `data` is
\* Some (Deleted or Present), never None, and load_sync is never called.
C19_AlwaysResolved ==
    /\ \A k \in 1..Len(data) : is_some(data[k])
    /\ loads = 0
    /\ outcome # "overflow"

\* Two files in the store, one read successfully, and still no load.
C19_Witness ==
    /\ op.name = "file_contents"
    /\ outcome = "ok"
    /\ len(Self) = 2
    /\ loads = 0
    /\ \E h \in 0..1 : ContentState(data, h) = "Deleted"

\* C20: set_file_contents(path, None) of a never-seen path allocates a
\* handle h: len() grows by one, file_id(path) becomes Some(h) and iter lists
\* h; the call returns false and appends no event.
C20_SilentAllocation ==
    [][(FirstUse /\ is_none(op'.contents)) =>
          LET h == len(Self)
          IN  /\ outcome' = "ok"
              /\ ret' = FALSE
              /\ len(Self') = h + 1
              /\ is_none(file_id(Self, op'.path))
              /\ file_id(Self', op'.path) = Some(h)
              /\ iter(Self').outcome = "ok"
              /\ iter(Self').ret[h + 1] = << h, op'.path >>
              /\ changes' = changes
              /\ mutations' = mutations]_vars

\* iter has just listed a handle for which no event was ever recorded, after
\* a drain that delivered the events of another handle.
C20_Witness ==
    /\ op.name = "iter"
    /\ drained # << >>
    /\ changes = << >>
    /\ \E k \in 1..Len(ret) :
           /\ KindsOf(ret[k][1]) = << >>
           /\ file_id(Self, ret[k][2]) = Some(ret[k][1])

====
